---- MODULE Spec2Model ----
(***************************************************************************)
(* Model of lib/modules/database/reference.js: the Reference class of the  *)
(* realtime database module.  References are heap objects (path + Query),  *)
(* the fluent builders allocate new References, on/off go to the listener  *)
(* registry of the database collaborator, and once/push/transaction are    *)
(* asynchronous calls whose pending result is settled by a later step.     *)
(* Strings that the code cuts or concatenates (paths, encoded keys) are    *)
(* sequences of one-character strings.                                     *)
(***************************************************************************)
EXTENDS Integers, Sequences, FiniteSets, TLC

VARIABLES refs, queries, hist, registry, last, ops, pushed, wire

vars == <<refs, queries, hist, registry, last, ops, pushed, wire>>

(***************************************************************************)
(* Bounds of the model.                                                    *)
(***************************************************************************)
MaxRefs == 3
MaxRegs == 2
MaxOps == 1
MaxAdapterCalls == 2

(***************************************************************************)
(* JavaScript values.  t is the kind of the value, n its number (or the    *)
(* identity of a function, error or Reference), s its characters.          *)
(***************************************************************************)
Undefined == [t |-> "undefined", n |-> 0, s |-> <<>>]
Null == [t |-> "null", n |-> 0, s |-> <<>>]
Num(k) == [t |-> "number", n |-> k, s |-> <<>>]
Str(cs) == [t |-> "string", n |-> 0, s |-> cs]
Fn(i) == [t |-> "function", n |-> i, s |-> <<>>]
RefVal(i) == [t |-> "reference", n |-> i, s |-> <<>>]
Err(i) == [t |-> "error", n |-> i, s |-> <<>>]
PromiseVal(i) == [t |-> "promise", n |-> i, s |-> <<>>]
\* new Snapshot(ref, data): a snapshot bound to the Reference r
Snapshot(r, data) == [t |-> "snapshot", n |-> r, s |-> data]
\* { committed, snapshot }
Committed(committed, snapshot) ==
  [t |-> "object", n |-> snapshot.n,
   s |-> <<IF committed THEN "committed" ELSE "not committed">> \o snapshot.s]

\* a plain mapping, told by the kinds of the values of its members
Mapping(members) == [t |-> "object", n |-> 0, s |-> members]
\* an array, told by the kinds of its elements
List(members) == [t |-> "array", n |-> 0, s |-> members]

\* typeof value
TypeOf(v) ==
  CASE v.t = "null" -> "object"
    [] v.t = "reference" -> "object"
    [] v.t = "error" -> "object"
    [] v.t = "snapshot" -> "object"
    [] v.t = "promise" -> "object"
    [] v.t = "array" -> "object"
    [] OTHER -> v.t

\* ToBoolean(value), as used by `a && b` and `if (a)`
Truthy(v) ==
  CASE v.t = "undefined" -> FALSE
    [] v.t = "null" -> FALSE
    [] v.t = "number" -> v.n # 0
    [] v.t = "boolean" -> v.n # 0
    [] v.t = "string" -> v.s # <<>>
    [] OTHER -> TRUE

\* utils.isFunction: the value is invocable
isFunction(v) == Truthy(v) /\ TypeOf(v) = "function"

(***************************************************************************)
(* Strings as sequences of characters.                                     *)
(***************************************************************************)
Slash == "/"
RootPath == <<"/">>
DigitChars == <<"0", "1", "2", "3", "4", "5", "6", "7", "8", "9">>

RECURSIVE NatToChars(_)
NatToChars(k) ==
  IF k < 10 THEN <<DigitChars[k + 1]>>
  ELSE NatToChars(k \div 10) \o <<DigitChars[(k % 10) + 1]>>

\* String(number) for the integers
NumToChars(k) == IF k < 0 THEN <<"-">> \o NatToChars(0 - k) ELSE NatToChars(k)

\* the canonical string form of a value argument
ValueToChars(v) ==
  CASE v.t = "number" -> NumToChars(v.n)
    [] v.t = "string" -> v.s
    [] v.t = "null" -> <<"n", "u", "l", "l">>
    [] v.t = "boolean" -> IF v.n = 1 THEN <<"t", "r", "u", "e">> ELSE <<"f", "a", "l", "s", "e">>
    [] OTHER -> <<"u", "n", "d", "e", "f", "i", "n", "e", "d">>

\* path.lastIndexOf('/'), 0-based, -1 when there is none
LastIndexOf(path, c) ==
  LET at == {i \in DOMAIN path : path[i] = c}
  IN IF at = {} THEN 0 - 1 ELSE (CHOOSE i \in at : \A j \in at : j <= i) - 1

\* path.substring(0, end): a negative end counts as 0
Substring0(path, end) == SubSeq(path, 1, IF end < 0 THEN 0 ELSE end)

(***************************************************************************)
(* Query (query.js): the ModifierSet of a Reference and its encoded key.   *)
(***************************************************************************)
Modifier(type, name, value, key) ==
  [type |-> type, name |-> name, value |-> value, key |-> key]

\* new Query(ref, path, existingModifiers): the modifier list is a copy
QueryNew(existingModifiers) == existingModifiers

\* query.getModifiers()
getModifiers(q) == queries[q]

OrderByInvalid(name, key) == name = "orderByChild" /\ ~Truthy(key)

LimitInvalid(limit) == ~(limit.t = "number" /\ limit.n >= 0)

FilterInvalid(value) ==
  value.t \notin {"null", "boolean", "number", "string", "object"}

\* overwrite semantics of setOrderBy and setLimit: the last call wins
Overwrite(mods, m) ==
  IF \E i \in DOMAIN mods : mods[i].type = m.type
  THEN [i \in DOMAIN mods |-> IF mods[i].type = m.type THEN m ELSE mods[i]]
  ELSE Append(mods, m)

setOrderBy(mods, name, key) == Overwrite(mods, Modifier("orderBy", name, Undefined, key))

setLimit(mods, name, limit) == Overwrite(mods, Modifier("limit", name, limit, Undefined))

setFilter(mods, name, value, key) == Append(mods, Modifier("filter", name, value, key))

\* the tag of one modifier in the encoded key
ModifierTag(m) ==
  CASE m.type = "orderBy" ->
         <<m.name>> \o (IF Truthy(m.key) THEN <<":">> \o m.key.s ELSE <<>>)
    [] m.type = "limit" -> <<m.name, ":">> \o ValueToChars(m.value)
    [] OTHER ->
         <<m.name, ":">> \o ValueToChars(m.value)
           \o (IF Truthy(m.key) THEN <<":">> \o m.key.s ELSE <<>>)

RECURSIVE Encode(_)
Encode(mods) ==
  IF mods = <<>> THEN <<>>
  ELSE IF Len(mods) = 1 THEN ModifierTag(mods[1])
  ELSE ModifierTag(mods[1]) \o <<"|">> \o Encode(Tail(mods))

\* query.getModifiersString()
getModifiersString(q) == Encode(queries[q])

(***************************************************************************)
(* The outcome of the latest call, as its caller observes it.              *)
(***************************************************************************)
Result(op, r, thrown, ret) ==
  [op |-> op, ref |-> r, eventType |-> "", cb |-> Undefined, fail |-> Undefined,
   thrown |-> thrown, ret |-> ret, calls |-> <<>>, removed |-> 0, gone |-> {},
   onRef |-> 0]

Built(r, call) == [base |-> hist[r].base, calls |-> Append(hist[r].calls, call)]

Fresh(path) == [base |-> path, calls |-> <<>>]

BasePaths == {RootPath, <<"/", "a">>}

\* database.ref(path): one Reference without modifiers
InitAt(p) ==
  /\ refs = <<[path |-> p, query |-> 1]>>
  /\ hist = <<Fresh(p)>>
  /\ queries = << <<>> >>
  /\ registry = {}
  /\ last = Result("init", 0, FALSE, Undefined)
  /\ ops = <<>>
  /\ pushed = 0
  /\ wire = <<>>

Init == \E p \in BasePaths : InitAt(p)

(***************************************************************************)
(* Fluent builders.                                                        *)
(***************************************************************************)
Refs == DOMAIN refs

CanAllocate == Len(refs) < MaxRefs

\* a builder whose modifier is refused: the setter throws, nothing is returned
BuilderThrows(r, name) ==
  /\ last' = Result(name, r, TRUE, Undefined)
  /\ UNCHANGED <<refs, queries, hist, registry, ops, pushed, wire>>

\* orderBy applying the modifier to this.query instead of newRef.query
orderByOnThis(r, name, key) ==
  LET q == Len(queries) + 1
      constructed == Append(queries, QueryNew(getModifiers(refs[r].query)))
  IN IF OrderByInvalid(name, key) THEN BuilderThrows(r, name)
     ELSE /\ refs' = Append(refs, [path |-> refs[r].path, query |-> q])
          /\ queries' = [constructed EXCEPT ![refs[r].query] = setOrderBy(@, name, key)]
          /\ hist' = Append(hist, Built(r, <<name, Undefined, key>>))
          /\ last' = Result(name, r, FALSE, RefVal(Len(refs) + 1))
          /\ UNCHANGED <<registry, ops, pushed, wire>>

\* Reference.orderBy
orderBy(r, name, key) ==
  LET q == Len(queries) + 1
      constructed == Append(queries, QueryNew(getModifiers(refs[r].query)))
  IN IF OrderByInvalid(name, key) THEN BuilderThrows(r, name)
     ELSE /\ refs' = Append(refs, [path |-> refs[r].path, query |-> q])
          /\ queries' = [constructed EXCEPT ![q] = setOrderBy(@, name, key)]
          /\ hist' = Append(hist, Built(r, <<name, Undefined, key>>))
          /\ last' = Result(name, r, FALSE, RefVal(Len(refs) + 1))
          /\ UNCHANGED <<registry, ops, pushed, wire>>

\* limit making the new Reference without the modifiers of this one
limitFresh(r, name, count) ==
  LET q == Len(queries) + 1
      constructed == Append(queries, QueryNew(<<>>))
  IN IF LimitInvalid(count) THEN BuilderThrows(r, name)
     ELSE /\ refs' = Append(refs, [path |-> refs[r].path, query |-> q])
          /\ queries' = [constructed EXCEPT ![q] = setLimit(@, name, count)]
          /\ hist' = Append(hist, Built(r, <<name, count, Undefined>>))
          /\ last' = Result(name, r, FALSE, RefVal(Len(refs) + 1))
          /\ UNCHANGED <<registry, ops, pushed, wire>>

\* Reference.limit
limit(r, name, count) ==
  LET q == Len(queries) + 1
      constructed == Append(queries, QueryNew(getModifiers(refs[r].query)))
  IN IF LimitInvalid(count) THEN BuilderThrows(r, name)
     ELSE /\ refs' = Append(refs, [path |-> refs[r].path, query |-> q])
          /\ queries' = [constructed EXCEPT ![q] = setLimit(@, name, count)]
          /\ hist' = Append(hist, Built(r, <<name, count, Undefined>>))
          /\ last' = Result(name, r, FALSE, RefVal(Len(refs) + 1))
          /\ UNCHANGED <<registry, ops, pushed, wire>>

\* filter making the new Reference without the modifiers of this one
filterFresh(r, name, value, key) ==
  LET q == Len(queries) + 1
      constructed == Append(queries, QueryNew(<<>>))
  IN IF FilterInvalid(value) THEN BuilderThrows(r, name)
     ELSE /\ refs' = Append(refs, [path |-> refs[r].path, query |-> q])
          /\ queries' = [constructed EXCEPT ![q] = setFilter(@, name, value, key)]
          /\ hist' = Append(hist, Built(r, <<name, value, key>>))
          /\ last' = Result(name, r, FALSE, RefVal(Len(refs) + 1))
          /\ UNCHANGED <<registry, ops, pushed, wire>>

\* filter applying the modifier to this.query instead of newRef.query
filterOnThis(r, name, value, key) ==
  LET q == Len(queries) + 1
      constructed == Append(queries, QueryNew(getModifiers(refs[r].query)))
  IN IF FilterInvalid(value) THEN BuilderThrows(r, name)
     ELSE /\ refs' = Append(refs, [path |-> refs[r].path, query |-> q])
          /\ queries' = [constructed EXCEPT ![refs[r].query] = setFilter(@, name, value, key)]
          /\ hist' = Append(hist, Built(r, <<name, value, key>>))
          /\ last' = Result(name, r, FALSE, RefVal(Len(refs) + 1))
          /\ UNCHANGED <<registry, ops, pushed, wire>>

\* Reference.filter
filter(r, name, value, key) ==
  LET q == Len(queries) + 1
      constructed == Append(queries, QueryNew(getModifiers(refs[r].query)))
  IN IF FilterInvalid(value) THEN BuilderThrows(r, name)
     ELSE /\ refs' = Append(refs, [path |-> refs[r].path, query |-> q])
          /\ queries' = [constructed EXCEPT ![q] = setFilter(@, name, value, key)]
          /\ hist' = Append(hist, Built(r, <<name, value, key>>))
          /\ last' = Result(name, r, FALSE, RefVal(Len(refs) + 1))
          /\ UNCHANGED <<registry, ops, pushed, wire>>

(***************************************************************************)
(* Navigation.                                                             *)
(***************************************************************************)
\* the path holder under a Reference: it holds the path it is given, and the
\* root path for an empty one
ReferenceBase(path) == IF path = <<>> THEN RootPath ELSE path

\* a new Reference handed the modifiers of the Reference it is made from
NewReferenceInherits(op, r, path) ==
  /\ refs' = Append(refs, [path |-> ReferenceBase(path), query |-> Len(queries) + 1])
  /\ queries' = Append(queries, QueryNew(getModifiers(refs[r].query)))
  /\ hist' = Append(hist, Fresh(ReferenceBase(path)))
  /\ last' = Result(op, r, FALSE, RefVal(Len(refs) + 1))
  /\ UNCHANGED <<registry, ops, pushed, wire>>

\* new Reference(database, path): a fresh Query without modifiers
NewReference(op, r, path) ==
  /\ refs' = Append(refs, [path |-> ReferenceBase(path), query |-> Len(queries) + 1])
  /\ queries' = Append(queries, QueryNew(<<>>))
  /\ hist' = Append(hist, Fresh(ReferenceBase(path)))
  /\ last' = Result(op, r, FALSE, RefVal(Len(refs) + 1))
  /\ UNCHANGED <<registry, ops, pushed, wire>>

\* Reference.child
child(r, segment) == NewReference("child", r, refs[r].path \o <<Slash>> \o segment)

\* parent cutting after the last slash instead of before it
parentKeepsSlash(r) ==
  IF refs[r].path = RootPath
  THEN /\ last' = Result("parent", r, FALSE, Null)
       /\ UNCHANGED <<refs, queries, hist, registry, ops, pushed, wire>>
  ELSE NewReference("parent", r,
                    Substring0(refs[r].path, LastIndexOf(refs[r].path, Slash) + 1))

\* Reference.parent
parent(r) ==
  IF refs[r].path = RootPath
  THEN /\ last' = Result("parent", r, FALSE, Null)
       /\ UNCHANGED <<refs, queries, hist, registry, ops, pushed, wire>>
  ELSE NewReference("parent", r,
                    Substring0(refs[r].path, LastIndexOf(refs[r].path, Slash)))

\* Reference.root
root(r) == NewReference("root", r, RootPath)

(***************************************************************************)
(* The listener registry of the database collaborator: the registrations  *)
(* (path, encoded key, event type) -> callback pairs.                      *)
(***************************************************************************)
Registration(path, key, eventType, cb, fail) ==
  [path |-> path, key |-> key, eventType |-> eventType, cb |-> cb, fail |-> fail]

\* database.on(path, modifiersString, modifiers, eventType, cb, errorCb)
registryOn(reg, c) ==
  reg \cup {Registration(c.path, c.key, c.eventType, c.cb, c.fail)}

\* database.off(path, modifiersString, eventType, origCB)
registryOff(reg, c) ==
  {g \in reg :
     ~(/\ g.path = c.path
       /\ g.key = c.key
       /\ c.eventType # "" => /\ g.eventType = c.eventType
                              /\ c.cb # Undefined => g.cb = c.cb)}

RegistryCall(fn, path, key, modifiers, eventType, cb, fail) ==
  [fn |-> fn, path |-> path, key |-> key, modifiers |-> modifiers,
   eventType |-> eventType, cb |-> cb, fail |-> fail]

RECURSIVE ApplyCalls(_, _)
ApplyCalls(reg, calls) ==
  IF calls = <<>> THEN reg
  ELSE ApplyCalls(IF calls[1].fn = "on" THEN registryOn(reg, calls[1])
                  ELSE registryOff(reg, calls[1]),
                  Tail(calls))

Outcome(thrown, ret, calls) == [thrown |-> thrown, ret |-> ret, calls |-> calls]

\* Reference.on: what it throws or returns, and its calls of the registry
onOutcome(r, eventType, successCallback, failureCallback) ==
  IF ~isFunction(successCallback) THEN Outcome(TRUE, Undefined, <<>>)
  ELSE IF Truthy(failureCallback) /\ ~isFunction(failureCallback)
  THEN Outcome(TRUE, Undefined, <<>>)
  ELSE Outcome(FALSE, successCallback,
               <<RegistryCall("on", refs[r].path, getModifiersString(refs[r].query),
                              getModifiers(refs[r].query), eventType,
                              successCallback, failureCallback)>>)

\* off forwarding no callback to the registry
offOutcomeNoCallback(r, eventType, origCB) ==
  Outcome(FALSE, Undefined,
          <<RegistryCall("off", refs[r].path, getModifiersString(refs[r].query),
                         <<>>, eventType, Undefined, Undefined)>>)

\* off forwarding the empty key instead of the encoded key
offOutcomeNoKey(r, eventType, origCB) ==
  Outcome(FALSE, Undefined,
          <<RegistryCall("off", refs[r].path, <<>>, <<>>, eventType, origCB, Undefined)>>)

\* off forwarding the event type "value" when it is given none
offOutcomeValue(r, eventType, origCB) ==
  Outcome(FALSE, Undefined,
          <<RegistryCall("off", refs[r].path, getModifiersString(refs[r].query),
                         <<>>, IF eventType = "" THEN "value" ELSE eventType,
                         origCB, Undefined)>>)

\* Reference.off
offOutcome(r, eventType, origCB) ==
  Outcome(FALSE, Undefined,
          <<RegistryCall("off", refs[r].path, getModifiersString(refs[r].query),
                         <<>>, eventType, origCB, Undefined)>>)

Listened(op, r, eventType, cb, fail, o) ==
  /\ registry' = ApplyCalls(registry, o.calls)
  /\ last' = [op |-> op, ref |-> r, eventType |-> eventType, cb |-> cb, fail |-> fail,
              thrown |-> o.thrown, ret |-> o.ret, calls |-> o.calls,
              removed |-> Cardinality(registry \ ApplyCalls(registry, o.calls)),
              gone |-> {g.eventType : g \in registry \ ApplyCalls(registry, o.calls)},
              onRef |-> IF /\ op = "off"
                           /\ last.op = "on"
                           /\ ~last.thrown
                           /\ last.eventType = eventType
                           /\ last.cb = cb
                        THEN last.ref ELSE 0]
  /\ UNCHANGED <<refs, queries, hist, ops, pushed, wire>>

on(r, eventType, successCallback, failureCallback) ==
  Listened("on", r, eventType, successCallback, failureCallback,
           onOutcome(r, eventType, successCallback, failureCallback))

\* off(eventType = '', origCB)
off(r, eventType, origCB) ==
  Listened("off", r, eventType, origCB, Undefined, offOutcome(r, eventType, origCB))

(***************************************************************************)
(* Inputs.                                                                 *)
(***************************************************************************)
ChildKeys == {Str(<<"a", "g", "e">>), Str(<<>>)}
LimitCounts == {Num(5), Num(0 - 1)}
FilterValues == {Num(30), Undefined}
FilterKeys == {Undefined, Str(<<"u", "i", "d", "1">>)}
Segments == {<<"a">>, <<"b">>}
NotInvocable == Str(<<"x">>)
OnInputs ==
  {<<"value", Fn(1), Undefined>>, <<"value", Fn(2), Fn(3)>>,
   <<"child_added", Fn(1), Num(0)>>, <<"value", NotInvocable, Undefined>>,
   <<"value", Fn(1), NotInvocable>>}
OffInputs ==
  {<<"", Undefined>>, <<"value", Undefined>>, <<"value", Fn(1)>>}

orderByKey(r) == orderBy(r, "orderByKey", Undefined)

orderByPriority(r) == orderBy(r, "orderByPriority", Undefined)

orderByValue(r) == orderBy(r, "orderByValue", Undefined)

orderByChild(r, key) == orderBy(r, "orderByChild", key)

limitToLast(r, count) == limit(r, "limitToLast", count)

limitToFirst(r, count) == limit(r, "limitToFirst", count)

equalTo(r, value, key) == filter(r, "equalTo", value, key)

endAt(r, value, key) == filter(r, "endAt", value, key)

startAt(r, value, key) == filter(r, "startAt", value, key)

OrderByKey == CanAllocate /\ \E r \in Refs : orderByKey(r)

OrderByPriority == CanAllocate /\ \E r \in Refs : orderByPriority(r)

OrderByValue == CanAllocate /\ \E r \in Refs : orderByValue(r)

OrderByChild == CanAllocate /\ \E r \in Refs, key \in ChildKeys : orderByChild(r, key)

LimitToLast == CanAllocate /\ \E r \in Refs, count \in LimitCounts : limitToLast(r, count)

LimitToFirst == CanAllocate /\ \E r \in Refs, count \in LimitCounts : limitToFirst(r, count)

EqualTo ==
  CanAllocate /\ \E r \in Refs, value \in FilterValues, key \in FilterKeys : equalTo(r, value, key)

EndAt ==
  CanAllocate /\ \E r \in Refs, value \in FilterValues, key \in FilterKeys : endAt(r, value, key)

StartAt ==
  CanAllocate /\ \E r \in Refs, value \in FilterValues, key \in FilterKeys : startAt(r, value, key)

Child == CanAllocate /\ \E r \in Refs, segment \in Segments : child(r, segment)

Parent == CanAllocate /\ \E r \in Refs : parent(r)

Root == CanAllocate /\ \E r \in Refs : root(r)

Next ==
  \/ OrderByKey
  \/ OrderByPriority
  \/ OrderByValue
  \/ OrderByChild
  \/ LimitToLast
  \/ LimitToFirst
  \/ EqualTo
  \/ EndAt
  \/ StartAt
  \/ Child
  \/ Parent
  \/ Root

Spec == Init /\ [][Next]_vars

(***************************************************************************)
(* Listening: References built by a few builder calls, and on / off.       *)
(***************************************************************************)
EqualToUid ==
  CanAllocate /\ \E r \in Refs : equalTo(r, Num(30), Str(<<"u", "i", "d", "1">>))

On ==
  /\ Cardinality(registry) < MaxRegs
  /\ \E r \in Refs, i \in OnInputs : on(r, i[1], i[2], i[3])

Off == \E r \in Refs, i \in OffInputs : off(r, i[1], i[2])

NextListen == OrderByKey \/ EqualToUid \/ On \/ Off

InitListen == InitAt(<<"/", "a">>)

SpecListen == InitListen /\ [][NextListen]_vars

(***************************************************************************)
(* Serialization of the values handed to the transport.                    *)
(***************************************************************************)
\* utils.isObject: a mapping, not null and not an array
isObject(v) == Truthy(v) /\ TypeOf(v) = "object" /\ v.t # "array"

\* what JSON.stringify keeps of a member: a date becomes its string, a
\* function or undefined member is left out
RECURSIVE Stringified(_)
Stringified(members) ==
  IF members = <<>> THEN <<>>
  ELSE (CASE members[1] = "date" -> <<"string">>
          [] members[1] \in {"function", "undefined"} -> <<>>
          [] OTHER -> <<members[1]>>) \o Stringified(Tail(members))

\* utils.tryJSONStringify: the JSON text of a mapping
tryJSONStringify(obj) == [t |-> "string", n |-> 0, s |-> Stringified(obj.s)]

\* utils.tryJSONParse: the mapping a JSON text stands for
tryJSONParse(text) == Mapping(text.s)

\* Reference._serializeObject
_serializeObject(obj) ==
  IF ~isObject(obj) THEN obj ELSE tryJSONParse(tryJSONStringify(obj))

\* Reference._serializeAnyType
_serializeAnyType(value) ==
  IF isObject(value)
  THEN [type |-> "object", value |-> _serializeObject(value)]
  ELSE [type |-> TypeOf(value), value |-> value]

(***************************************************************************)
(* Asynchronous operations: once, push, transaction.  An entry of ops is   *)
(* one call: its arguments, the collaborator calls it made (sent), what    *)
(* the transport answered, the handler of its promise chain that runs next *)
(* (link) with what that handler is handed (carry), the callbacks it       *)
(* invoked and its pending result (state, value).  Each handler of a chain *)
(* runs as a job of its own, so the jobs of several calls interleave.      *)
(***************************************************************************)
\* what the callbacks of the caller do when invoked:
\*   Fn(4)  () => { throw new Error() }      Fn(6)  e => { throw e }
\*   Fn(7)  e => e                           Fn(8)  e => Promise.reject(e)
\* and every other function returns undefined
Behaviour(f) ==
  CASE f = Fn(4) -> "throws"
    [] f = Fn(6) -> "rethrows"
    [] f = Fn(7) -> "echoes"
    [] f = Fn(8) -> "rejects"
    [] OTHER -> "returns"

\* the error that a callback throwing an error of its own throws
CallbackError(f) == [t |-> "error", n |-> f.n, s |-> <<"t", "h", "r", "o", "w", "n">>]

\* the call f(...args) as its caller sees it: it throws v, returns v, or
\* returns a promise rejected with v
Called(f, args) ==
  CASE Behaviour(f) = "throws" -> [how |-> "throw", v |-> CallbackError(f)]
    [] Behaviour(f) = "rethrows" -> [how |-> "throw", v |-> args[1]]
    [] Behaviour(f) = "echoes" -> [how |-> "return", v |-> args[1]]
    [] Behaviour(f) = "rejects" -> [how |-> "promise", v |-> args[1]]
    [] OTHER -> [how |-> "return", v |-> Undefined]

\* database._toFirebaseError(error): the domain error of a raw error
toFirebaseError(error) == [t |-> "error", n |-> error.n, s |-> <<"f", "i", "r", "e", "b", "a", "s", "e">>]

MissingUpdate == [t |-> "error", n |-> 0, s |-> <<"M", "i", "s", "s", "i", "n", "g">>]

Invocation(f, args) == [cb |-> f, args |-> args]

Op(kind, r, update, cb, fail, sent, state, value) ==
  [kind |-> kind, ref |-> r, update |-> update, cb |-> cb, fail |-> fail,
   sent |-> sent, stage |-> IF sent = <<>> THEN "none" ELSE "sent",
   answer |-> Undefined, state |-> state, value |-> value,
   invoked |-> <<>>, adapterCalls |-> 0, thrown |-> 0, arg |-> Undefined,
   link |-> "none", carry |-> [ok |-> TRUE, v |-> Undefined]]

Settle(op, state, value) ==
  IF op.state = "pending" THEN [op EXCEPT !.state = state, !.value = value] ELSE op

Invoke(op, f, args) == [op EXCEPT !.invoked = Append(@, Invocation(f, args))]

\* promisify(name, FirebaseDatabase)(...args): the transport receives the call
\* at once, within the call that makes it
promisify(w, i, sent) == w \o [k \in DOMAIN sent |-> [op |-> i, call |-> sent[k]]]

\* a call held back while an earlier call is pending
StartedQueued(op, name) ==
  /\ ops' = Append(ops, op)
  /\ wire' = IF \E i \in DOMAIN ops : ops[i].state = "pending" THEN wire
             ELSE promisify(wire, Len(ops) + 1, op.sent)
  /\ last' = Result(name, op.ref, FALSE, PromiseVal(Len(ops) + 1))

Started(op, name) ==
  /\ ops' = Append(ops, op)
  /\ wire' = promisify(wire, Len(ops) + 1, op.sent)
  /\ last' = Result(name, op.ref, FALSE, PromiseVal(Len(ops) + 1))

\* Reference.once: the call
once(r, eventType, successCallback, failureCallback) ==
  /\ Started(Op("once", r, Undefined, successCallback, failureCallback,
                <<[fn |-> "once", path |-> refs[r].path,
                   key |-> getModifiersString(refs[r].query),
                   modifiers |-> getModifiers(refs[r].query),
                   eventType |-> eventType]>>,
                "pending", Undefined), "once")
  /\ UNCHANGED <<refs, queries, hist, registry, pushed>>

\* what one handler of a promise chain hands to the next: a value or an error
Carry(ok, v) == [ok |-> ok, v |-> v]

\* the handler has run: the chain stands before the next one
Handed(op, link, ok, v) == [op EXCEPT !.link = link, !.carry = Carry(ok, v)]

\* a handler that does not apply passes on what it was handed
Passed(op, link) == [op EXCEPT !.link = link]

\* the last handler of the chain has run: within the same job the promise
\* that the call returned settles with what the handler returned or threw
Finished(op, ok, v) ==
  Handed(Settle(op, IF ok THEN "resolved" ELSE "rejected", v), "done", ok, v)

\* the promise that the call returned settles as the promise it follows did
chainSettled(op) == Finished(op, op.carry.ok, op.carry.v)

\* once: .then(({ snapshot }) => new Snapshot(this, snapshot))
onceSnapshot(op) ==
  IF op.carry.ok THEN Handed(op, "then", TRUE, Snapshot(op.ref, op.carry.v.s))
  ELSE Passed(op, "then")

\* once: the .then handler that invokes successCallback; what successCallback
\* returns is dropped, what it throws goes to the .catch handler
onceThen(op) ==
  LET called == Called(op.cb, <<op.carry.v>>)
      invoked == Invoke(op, op.cb, <<op.carry.v>>)
  IN IF ~op.carry.ok THEN Passed(op, "catch")
     ELSE IF isFunction(op.cb)
     THEN IF called.how = "throw"
          THEN Handed(invoked, "catch", FALSE, called.v)
          ELSE Handed(invoked, "catch", TRUE, op.carry.v)
     ELSE Passed(op, "catch")

\* once: the .catch handler.  What failureCallback returns or throws settles
\* the returned promise within the job; when it returns a promise, and on
\* `return Promise.reject(firebaseError)`, the returned promise follows that
\* promise, which takes two more jobs
onceCatch(op) ==
  LET firebaseError == toFirebaseError(op.carry.v)
      called == Called(op.fail, <<firebaseError>>)
      invoked == Invoke(op, op.fail, <<firebaseError>>)
  IN IF op.carry.ok THEN Finished(op, TRUE, op.carry.v)
     ELSE IF isFunction(op.fail)
     THEN CASE called.how = "throw" -> Finished(invoked, FALSE, called.v)
            [] called.how = "promise" -> Handed(invoked, "adopt", FALSE, called.v)
            [] OTHER -> Finished(invoked, TRUE, called.v)
     ELSE Handed(op, "adopt", FALSE, firebaseError)

\* the transport settles the call of once: the chain of handlers is to run
onceSettled(i, ok, answer) ==
  /\ ops[i].kind = "once" /\ ops[i].stage = "sent"
  /\ ops' = [ops EXCEPT ![i] = Handed([@ EXCEPT !.stage = IF ok THEN "answered" ELSE "failed",
                                                !.answer = answer],
                                      "snapshot", ok, answer)]
  /\ last' = Result("onceSettled", ops[i].ref, FALSE, Undefined)
  /\ UNCHANGED <<refs, queries, hist, registry, pushed, wire>>

\* one job of the chain of once: the next handler runs, or the returned
\* promise follows the rejected promise that the .catch handler returned
onceJob(i) ==
  /\ ops[i].kind = "once"
  /\ ops[i].link \in {"snapshot", "then", "catch", "adopt", "settle"}
  /\ ops' = [ops EXCEPT ![i] = CASE ops[i].link = "snapshot" -> onceSnapshot(ops[i])
                                  [] ops[i].link = "then" -> onceThen(ops[i])
                                  [] ops[i].link = "catch" -> onceCatch(ops[i])
                                  [] ops[i].link = "adopt" -> Passed(ops[i], "settle")
                                  [] OTHER -> chainSettled(ops[i])]
  /\ last' = Result("onceJob", ops[i].ref, FALSE, Undefined)
  /\ UNCHANGED <<refs, queries, hist, registry, pushed, wire>>

\* the locally generated push id: later ids are lexically greater
PushID(k) == <<"-", DigitChars[(k \div 10) + 1], DigitChars[(k % 10) + 1]>>

\* push joining path and id without the slash
pushNoSlash(r, value, onComplete) ==
  IF value = Null \/ value = Undefined
  THEN /\ refs' = Append(refs, [path |-> refs[r].path \o PushID(pushed),
                                query |-> Len(queries) + 1])
       /\ queries' = Append(queries, QueryNew(<<>>))
       /\ hist' = Append(hist, Fresh(refs[r].path \o PushID(pushed)))
       /\ pushed' = pushed + 1
       /\ last' = Result("push", r, FALSE, RefVal(Len(refs) + 1))
       /\ UNCHANGED <<registry, ops, wire>>
  ELSE /\ Started(Op("push", r, Undefined, onComplete, Undefined,
                     <<[fn |-> "push", path |-> refs[r].path,
                        value |-> _serializeAnyType(value)]>>,
                     "pending", Undefined), "push")
       /\ UNCHANGED <<refs, queries, hist, registry, pushed>>

\* Reference.push: the call
push(r, value, onComplete) ==
  IF value = Null \/ value = Undefined
  THEN /\ refs' = Append(refs, [path |-> refs[r].path \o <<Slash>> \o PushID(pushed),
                                query |-> Len(queries) + 1])
       /\ queries' = Append(queries, QueryNew(<<>>))
       /\ hist' = Append(hist, Fresh(refs[r].path \o <<Slash>> \o PushID(pushed)))
       /\ pushed' = pushed + 1
       /\ last' = Result("push", r, FALSE, RefVal(Len(refs) + 1))
       /\ UNCHANGED <<registry, ops, wire>>
  ELSE /\ Started(Op("push", r, Undefined, onComplete, Undefined,
                     <<[fn |-> "push", path |-> refs[r].path,
                        value |-> _serializeAnyType(value)]>>,
                     "pending", Undefined), "push")
       /\ UNCHANGED <<refs, queries, hist, registry, pushed>>

\* push: the .then handler, newRef the Reference made of the answer.  A
\* promise that onComplete returns is followed before the .catch handler runs
pushThen(op, newRef) ==
  LET called == Called(op.cb, <<Null, newRef>>)
      invoked == Invoke(op, op.cb, <<Null, newRef>>)
  IN IF isFunction(op.cb)
     THEN CASE called.how = "throw" -> Handed(invoked, "catch", FALSE, called.v)
            [] called.how = "promise" -> Handed(invoked, "thenAdopt", FALSE, called.v)
            [] OTHER -> Handed(invoked, "catch", TRUE, called.v)
     ELSE Handed(op, "catch", TRUE, newRef)

\* push: the .catch handler; the returned promise settles within the job,
\* unless onComplete returns a promise for it to follow
pushCatch(op) ==
  LET called == Called(op.cb, <<op.carry.v, Null>>)
      invoked == Invoke(op, op.cb, <<op.carry.v, Null>>)
  IN IF op.carry.ok THEN Finished(op, TRUE, op.carry.v)
     ELSE IF isFunction(op.cb)
     THEN CASE called.how = "throw" -> Finished(invoked, FALSE, called.v)
            [] called.how = "promise" -> Handed(invoked, "adopt", FALSE, called.v)
            [] OTHER -> Finished(invoked, TRUE, called.v)
     ELSE Finished(op, TRUE, op.carry.v)

\* the transport settles the call of push: the chain of handlers is to run
pushSettled(i, ok, answer) ==
  /\ ops[i].kind = "push" /\ ops[i].stage = "sent"
  /\ ops' = [ops EXCEPT ![i] = Handed([@ EXCEPT !.stage = IF ok THEN "answered" ELSE "failed",
                                                !.answer = answer],
                                      "then", ok, answer)]
  /\ last' = Result("pushSettled", ops[i].ref, FALSE, Undefined)
  /\ UNCHANGED <<refs, queries, hist, registry, pushed, wire>>

\* one job of the chain of push: the next handler runs, or a promise
\* follows the rejected promise that onComplete returned
pushJob(i) ==
  /\ ops[i].kind = "push"
  /\ ops[i].link \in {"then", "thenAdopt", "thenSettle", "catch", "adopt", "settle"}
  /\ IF ops[i].link = "then" /\ ops[i].carry.ok
     THEN /\ CanAllocate
          /\ refs' = Append(refs, [path |-> ReferenceBase(ops[i].carry.v.s),
                                   query |-> Len(queries) + 1])
          /\ queries' = Append(queries, QueryNew(<<>>))
          /\ hist' = Append(hist, Fresh(ReferenceBase(ops[i].carry.v.s)))
          /\ ops' = [ops EXCEPT ![i] = pushThen(ops[i], RefVal(Len(refs) + 1))]
     ELSE /\ ops' = [ops EXCEPT ![i] =
                       CASE ops[i].link = "then" -> Passed(ops[i], "catch")
                         [] ops[i].link = "thenAdopt" -> Passed(ops[i], "thenSettle")
                         [] ops[i].link = "thenSettle" -> Passed(ops[i], "catch")
                         [] ops[i].link = "catch" -> pushCatch(ops[i])
                         [] ops[i].link = "adopt" -> Passed(ops[i], "settle")
                         [] OTHER -> chainSettled(ops[i])]
          /\ UNCHANGED <<refs, queries, hist>>
  /\ last' = Result("pushJob", ops[i].ref, FALSE, Undefined)
  /\ UNCHANGED <<registry, pushed, wire>>

\* transaction calling the queue whatever transactionUpdate is
transactionUnchecked(r, transactionUpdate, onComplete, applyLocally) ==
  /\ Started(Op("transaction", r, transactionUpdate, onComplete, Undefined,
                <<[fn |-> "transaction.add", ref |-> r, update |-> transactionUpdate,
                   applyLocally |-> applyLocally]>>,
                "pending", Undefined), "transaction")
  /\ UNCHANGED <<refs, queries, hist, registry, pushed>>

\* Reference.transaction: the call
transaction(r, transactionUpdate, onComplete, applyLocally) ==
  /\ IF ~isFunction(transactionUpdate)
     THEN Started(Op("transaction", r, transactionUpdate, onComplete, Undefined,
                     <<>>, "rejected", MissingUpdate), "transaction")
     ELSE Started(Op("transaction", r, transactionUpdate, onComplete, Undefined,
                     <<[fn |-> "transaction.add", ref |-> r, update |-> transactionUpdate,
                        applyLocally |-> applyLocally]>>,
                     "pending", Undefined), "transaction")
  /\ UNCHANGED <<refs, queries, hist, registry, pushed>>

\* onCompleteWrapper(error, committed, snapshotData): the pending result after it
onCompleteWrapper(op, error, committed, snapshotData) ==
  LET snapshot == Snapshot(op.ref, snapshotData)
  IN IF Truthy(error)
     THEN IF TypeOf(op.cb) = "function"
          THEN IF Called(op.cb, <<error, committed, Null>>).how = "throw"
               THEN [Invoke(op, op.cb, <<error, committed, Null>>) EXCEPT !.thrown = @ + 1]
               ELSE Settle(Invoke(op, op.cb, <<error, committed, Null>>), "rejected", error)
          ELSE Settle(op, "rejected", error)
     ELSE IF TypeOf(op.cb) = "function"
          THEN IF Called(op.cb, <<Null, committed, snapshot>>).how = "throw"
               THEN [Invoke(op, op.cb, <<Null, committed, snapshot>>) EXCEPT !.thrown = @ + 1]
               ELSE Settle(Invoke(op, op.cb, <<Null, committed, snapshot>>), "resolved",
                           Committed(committed.n = 1, snapshot))
          ELSE Settle(op, "resolved", Committed(committed.n = 1, snapshot))

\* the transaction queue invokes the completion adapter
adapterInvoked(i, error, committed, snapshotData) ==
  /\ ops[i].kind = "transaction" /\ ops[i].sent # <<>>
  /\ ops[i].adapterCalls < MaxAdapterCalls
  /\ LET op == [ops[i] EXCEPT !.adapterCalls = @ + 1,
                              !.stage = IF @ = "sent"
                                        THEN (IF Truthy(error) THEN "failed" ELSE "answered")
                                        ELSE @,
                              !.answer = IF ops[i].adapterCalls = 0 THEN error ELSE @]
     IN ops' = [ops EXCEPT ![i] = onCompleteWrapper(op, error, committed, snapshotData)]
  /\ last' = Result("adapterInvoked", ops[i].ref, FALSE, Undefined)
  /\ UNCHANGED <<refs, queries, hist, registry, pushed, wire>>

Bool(b) == [t |-> "boolean", n |-> IF b THEN 1 ELSE 0, s |-> <<>>]

OnceInputs ==
  {<<Undefined, Undefined>>, <<Fn(1), Undefined>>, <<Fn(1), Fn(3)>>, <<Undefined, Fn(3)>>,
   <<Fn(4), Fn(3)>>, <<Undefined, Fn(4)>>, <<Undefined, NotInvocable>>,
   <<Undefined, Fn(6)>>, <<Undefined, Fn(7)>>, <<Undefined, Fn(8)>>}
PushValues == {Num(7), Undefined}
Completions == {Undefined, Fn(1), Fn(4)}
Updates == {Fn(5), NotInvocable, Undefined}
RawErrors == {Err(1)}
SnapshotData == {<<"d">>}

\* the Reference that database.ref returned
BaseRef == CHOOSE r \in Refs : \A q \in Refs : r <= q

Once ==
  Len(ops) < MaxOps /\ \E i \in OnceInputs : once(BaseRef, "value", i[1], i[2])

OnceSettled ==
  \E i \in DOMAIN ops :
    \/ \E data \in SnapshotData : onceSettled(i, TRUE, Str(data))
    \/ \E e \in RawErrors : onceSettled(i, FALSE, e)

Push ==
  Len(ops) < MaxOps /\ CanAllocate /\ \E r \in Refs, value \in PushValues, onComplete \in Completions \cup {Fn(8)} :
      push(r, value, onComplete)

PushSettled ==
  \E i \in DOMAIN ops :
    \/ pushSettled(i, TRUE, Str(refs[ops[i].ref].path \o <<Slash, "k">>))
    \/ \E e \in RawErrors : pushSettled(i, FALSE, e)

OnceJob == \E i \in DOMAIN ops : onceJob(i)

PushJob == \E i \in DOMAIN ops : pushJob(i)

Transaction ==
  Len(ops) < MaxOps /\ \E update \in Updates, onComplete \in Completions :
    transaction(BaseRef, update, onComplete, FALSE)

AdapterInvoked ==
  \E i \in DOMAIN ops, error \in RawErrors \cup {Null}, committed \in BOOLEAN,
     data \in SnapshotData :
    adapterInvoked(i, error, Bool(committed), data)

NextAsync ==
  \/ Once
  \/ OnceSettled
  \/ OnceJob
  \/ Push
  \/ PushSettled
  \/ PushJob
  \/ Transaction
  \/ AdapterInvoked

SpecAsync == InitListen /\ [][NextAsync]_vars

(***************************************************************************)
(* Listening and reading through References reached by navigation.         *)
(***************************************************************************)
OnValue ==
  /\ Cardinality(registry) < MaxRegs
  /\ \E r \in Refs : on(r, "value", Fn(1), Undefined)

OffAll == \E r \in Refs : off(r, "", Undefined)

OnceThrough ==
  Len(ops) < MaxOps /\ \E r \in Refs : once(r, "value", Undefined, Undefined)

NextNavigate ==
  \/ OrderByKey
  \/ Child
  \/ Parent
  \/ Root
  \/ OnValue
  \/ OffAll
  \/ OnceThrough

SpecNavigate == InitListen /\ [][NextNavigate]_vars

(***************************************************************************)
(* Chains of builders from one Reference without modifiers.                *)
(***************************************************************************)
MaxChain == 5

CanChain == Len(refs) < MaxChain

Age == Str(<<"a", "g", "e">>)
Uid1 == Str(<<"u", "i", "d", "1">>)

ChainOrderByChild == CanChain /\ \E r \in Refs : orderByChild(r, Age)

ChainOrderByKey == CanChain /\ \E r \in Refs : orderByKey(r)

ChainLimitToFirst == CanChain /\ \E r \in Refs : limitToFirst(r, Num(5))

ChainLimitToLast == CanChain /\ \E r \in Refs : limitToLast(r, Num(2))

ChainEqualTo == CanChain /\ \E r \in Refs : equalTo(r, Num(30), Uid1)

ChainStartAt == CanChain /\ \E r \in Refs : startAt(r, Num(30), Undefined)

NextChain ==
  \/ ChainOrderByChild
  \/ ChainOrderByKey
  \/ ChainLimitToFirst
  \/ ChainLimitToLast
  \/ ChainEqualTo
  \/ ChainStartAt

SpecChain == InitListen /\ [][NextChain]_vars

(***************************************************************************)
(* Writes: the calls that only forward to the transport.                   *)
(***************************************************************************)
\* a call that only forwards to the transport and returns the pending result
Forwarded(kind, r, arg, call) ==
  /\ Started([Op(kind, r, Undefined, Undefined, Undefined, <<call>>,
                  "pending", Undefined) EXCEPT !.arg = arg], kind)
  /\ UNCHANGED <<refs, queries, hist, registry, pushed>>

\* Reference.keepSynced
keepSynced(r, bool) ==
  Forwarded("keepSynced", r, bool,
            [fn |-> "keepSynced", path |-> refs[r].path, value |-> bool])

\* Reference.set
set(r, value) ==
  Forwarded("set", r, value,
            [fn |-> "set", path |-> refs[r].path, value |-> _serializeAnyType(value)])

\* Reference.update
update(r, val) ==
  Forwarded("update", r, val,
            [fn |-> "update", path |-> refs[r].path, value |-> _serializeObject(val)])

\* Reference.remove
remove(r) ==
  Forwarded("remove", r, Undefined, [fn |-> "remove", path |-> refs[r].path])

Forwards == {"keepSynced", "set", "update", "remove"}

\* the transport settles a forwarded call: the pending result mirrors it
forwardSettled(i, ok, answer) ==
  /\ ops[i].kind \in Forwards /\ ops[i].stage = "sent"
  /\ ops' = [ops EXCEPT ![i] = Settle([@ EXCEPT !.stage = IF ok THEN "answered" ELSE "failed",
                                                !.answer = answer],
                                      IF ok THEN "resolved" ELSE "rejected", answer)]
  /\ last' = Result("forwardSettled", ops[i].ref, FALSE, Undefined)
  /\ UNCHANGED <<refs, queries, hist, registry, pushed, wire>>

MaxCalls == 2

SetValues ==
  {Null, Undefined, Num(7), Str(<<"x">>), Mapping(<<"number">>),
   Mapping(<<"date", "function">>), List(<<"number">>)}
UpdateValues == {Mapping(<<"date">>), Num(7)}
Flags == {Bool(TRUE), Bool(FALSE)}

KeepSynced == Len(ops) < MaxCalls /\ \E bool \in Flags : keepSynced(BaseRef, bool)

Set == Len(ops) < MaxCalls /\ \E value \in SetValues : set(BaseRef, value)

Update == Len(ops) < MaxCalls /\ \E val \in UpdateValues : update(BaseRef, val)

Remove == Len(ops) < MaxCalls /\ remove(BaseRef)

OnceValue == Len(ops) < MaxCalls /\ once(BaseRef, "value", Undefined, Undefined)

PushValue == Len(ops) < MaxCalls /\ push(BaseRef, Num(7), Undefined)

ForwardSettled ==
  \E i \in DOMAIN ops :
    \/ forwardSettled(i, TRUE, Null)
    \/ \E e \in RawErrors : forwardSettled(i, FALSE, e)

NextWrite ==
  \/ KeepSynced
  \/ Set
  \/ Update
  \/ Remove
  \/ OnceValue
  \/ PushValue
  \/ ForwardSettled
  \/ OnceSettled
  \/ OnceJob
  \/ PushSettled
  \/ PushJob

SpecWrite == InitListen /\ [][NextWrite]_vars

(***************************************************************************)
(* Properties.                                                             *)
(***************************************************************************)
PathOf(r) == refs[r].path

KeyOf(r) == getModifiersString(refs[r].query)

\* the registrations held for one (path, key, eventType)
Entry(reg, path, key, eventType) ==
  {g \in reg : g.path = path /\ g.key = key /\ g.eventType = eventType}

\* C1: a builder call (and every later call, on any Reference) leaves the path,
\* the modifier list and the encoded key of every existing Reference unchanged,
\* and the Query of a new Reference is not the Query of an existing one.
C1_BuildersLeaveReferences ==
  [][\A r \in DOMAIN refs :
       /\ r \in DOMAIN refs'
       /\ refs'[r] = refs[r]
       /\ queries'[refs'[r].query] = queries[refs[r].query]
       /\ Encode(queries'[refs'[r].query]) = Encode(queries[refs[r].query])
       /\ \A n \in DOMAIN refs' \ DOMAIN refs : refs'[n].query # refs[r].query]_vars

\* C1 witness: a Reference built by two builder calls, its base still bare
C1_Witness ==
  /\ Len(refs) = 3
  /\ hist[1].calls = <<>> /\ queries[refs[1].query] = <<>>
  /\ Len(hist[2].calls) = 1 /\ Len(queries[refs[2].query]) = 1
  /\ Len(hist[3].calls) = 2 /\ Len(queries[refs[3].query]) = 2
  /\ last.ref = 2

\* the step is the call off(eventType, fn) right after on(eventType, fn)
\* through the same Reference
OnThenOff ==
  /\ last.op = "on" /\ ~last.thrown
  /\ last'.op = "off"
  /\ last'.ref = last.ref /\ last'.eventType = last.eventType /\ last'.cb = last.cb

\* C2 as claimed: on(eventType, fn) then off(eventType, fn) leaves no
\* registration at all for that (path, key, eventType).
C2_OnOffLeavesNone ==
  [][OnThenOff =>
       Entry(registry', PathOf(last.ref), KeyOf(last.ref), last.eventType) = {}]_vars

\* C2 amended: on(eventType, fn) then off(eventType, fn) leaves no registration
\* of fn for that (path, key, eventType), and every registration of another
\* callback held there stays; none is left exactly when fn was the only one.
C2_OnOffRemovesCallback ==
  [][OnThenOff =>
       LET before == Entry(registry, PathOf(last.ref), KeyOf(last.ref), last.eventType)
           after == Entry(registry', PathOf(last.ref), KeyOf(last.ref), last.eventType)
       IN /\ after = {g \in before : g.cb # last.cb}
          /\ \A g \in after : g.cb # last.cb
          /\ after = {} <=> \A g \in before : g.cb = last.cb]_vars

\* C2 witness: off right after on through the same Reference removed fn,
\* and another callback is still registered there
C2_Witness ==
  /\ last.op = "off" /\ last.onRef = last.ref /\ last.removed = 1
  /\ Entry(registry, PathOf(last.ref), KeyOf(last.ref), last.eventType) # {}

\* C3: References built from the same path by the same builder calls have
\* the same encoded key (the empty one when there are no calls), and after
\* off(eventType, fn) through one of them no registration of fn is left for
\* the (path, key, eventType) of any of them.
C3_SameBuildSameKey ==
  [][/\ \A a, b \in DOMAIN refs' :
          /\ hist'[a] = hist'[b] =>
               /\ refs'[a].path = refs'[b].path
               /\ Encode(queries'[refs'[a].query]) = Encode(queries'[refs'[b].query])
          /\ hist'[a].calls = <<>> => Encode(queries'[refs'[a].query]) = <<>>
     /\ (last'.op = "off" /\ last'.eventType # "" /\ last'.cb # Undefined) =>
          \A a \in DOMAIN refs :
            hist[a] = hist[last'.ref] =>
              \A g \in Entry(registry', PathOf(a), KeyOf(a), last'.eventType) :
                g.cb # last'.cb]_vars

\* C3 witness: off through one Reference removed the listener that on had
\* just registered through another Reference built the same way
C3_Witness ==
  /\ last.op = "off" /\ last.removed = 1
  /\ last.onRef # 0 /\ last.onRef # last.ref
  /\ hist[last.onRef] = hist[last.ref]
  /\ hist[last.ref].calls # <<>>

\* the call recorded in c names the registration g
Names(c, g) ==
  /\ c.op \in {"on", "off"}
  /\ g.path = PathOf(c.ref)
  /\ g.key = KeyOf(c.ref)
  /\ IF c.op = "on" THEN g.eventType = c.eventType /\ g.cb = c.cb
     ELSE c.eventType # "" =>
            /\ g.eventType = c.eventType
            /\ c.cb # Undefined => g.cb = c.cb

\* C4: a call of on or off changes no registration it does not name: those
\* with another path, key, event type or callback are held after it exactly
\* when they were held before it.
C4_OtherRegistrationsKept ==
  [][\A g \in registry \cup registry' :
       Names(last', g) \/ (g \in registry <=> g \in registry')]_vars

\* C4 witness: off removed a registration while registrations with another
\* key, another event type or another callback on the same path are held
C4_Witness ==
  /\ last.op = "off" /\ last.removed = 1 /\ last.cb # Undefined
  /\ \E g \in registry :
       /\ g.path = PathOf(last.ref)
       /\ g.key # KeyOf(last.ref) \/ g.eventType # last.eventType \/ g.cb # last.cb

\* C5 as claimed: on throws without a registry call when successCallback is
\* not invocable or a provided failureCallback is not invocable; otherwise it
\* calls the registry once with its arguments and returns successCallback.
C5_OnValidatesCallbacks ==
  last.op = "on" =>
    IF ~isFunction(last.cb) \/ (last.fail # Undefined /\ ~isFunction(last.fail))
    THEN last.thrown /\ last.calls = <<>>
    ELSE /\ ~last.thrown
         /\ last.ret = last.cb
         /\ last.calls = <<RegistryCall("on", PathOf(last.ref), KeyOf(last.ref),
                                        queries[refs[last.ref].query], last.eventType,
                                        last.cb, last.fail)>>

\* the calls of once, push and transaction made so far
Ops == {ops[i] : i \in DOMAIN ops}

\* the transport call of op failed and no handler of op is still to run
Failed(op) == op.stage = "failed" /\ op.link \in {"none", "done"}

\* C6 as claimed: when the transport call of once rejects, then without a
\* failureCallback the pending result is rejected with the mapped error, and
\* with a failureCallback it is invoked once with the mapped error and the
\* pending result is not rejected.
C6_OnceFailureEitherOr ==
  \A op \in Ops :
    (op.kind = "once" /\ Failed(op)) =>
      IF isFunction(op.fail)
      THEN /\ op.invoked = <<Invocation(op.fail, <<toFirebaseError(op.answer)>>)>>
           /\ op.state # "rejected"
      ELSE /\ op.invoked = <<>>
           /\ op.state = "rejected"
           /\ op.value = toFirebaseError(op.answer) /\ op.value # op.answer

\* C7 as claimed: when the transport call of push(value) fails, then without
\* a completion callback the pending result is rejected with the error, and
\* a completion callback is invoked with (error, null).
C7_PushFailureRejects ==
  \A op \in Ops :
    (op.kind = "push" /\ Failed(op)) =>
      IF isFunction(op.cb)
      THEN op.invoked = <<Invocation(op.cb, <<op.answer, Null>>)>>
      ELSE op.state = "rejected" /\ op.value = op.answer

\* the callback that receives the failures of a call, and the error it gets
FailureCallback(op) == IF op.kind = "once" THEN op.fail ELSE op.cb

FailureGiven(op) == IF op.kind = "once" THEN toFirebaseError(op.answer) ELSE op.answer

CallbackGotFailure(op) ==
  \E k \in DOMAIN op.invoked :
    /\ op.invoked[k].cb = FailureCallback(op)
    /\ op.invoked[k].args[1] = FailureGiven(op)

\* C8 as claimed: a failure of once, push(value) or transaction reaches the
\* caller through one channel: the supplied callback (which returns a
\* plain value) and no rejection, or without a callback the rejection.
C8_OneFailureChannel ==
  \A op \in Ops :
    (Failed(op) /\ Called(FailureCallback(op), <<FailureGiven(op)>>).how = "return") =>
      IF isFunction(FailureCallback(op))
      THEN CallbackGotFailure(op) /\ op.state # "rejected"
      ELSE ~CallbackGotFailure(op) /\ op.state = "rejected"

\* C9: transaction with a transactionUpdate that is not invocable returns a
\* rejected pending result without throwing, calls neither the transaction
\* queue nor onComplete, and the completion adapter never runs for it.
C9_TransactionNeedsUpdate ==
  /\ \A op \in Ops :
       (op.kind = "transaction" /\ ~isFunction(op.update)) =>
         /\ op.state = "rejected" /\ op.value = MissingUpdate
         /\ op.sent = <<>>
         /\ op.invoked = <<>>
         /\ op.adapterCalls = 0
  /\ last.op = "transaction" => ~last.thrown /\ last.ret = PromiseVal(Len(ops))

\* C9 witness: a transaction called with an update that is not invocable
\* and with an onComplete callback
C9_Witness ==
  /\ last.op = "transaction"
  /\ \E op \in Ops :
       /\ op.kind = "transaction" /\ op.update = NotInvocable
       /\ isFunction(op.cb) /\ op.state = "rejected"

\* C10 as claimed: once the completion adapter of a transaction has been
\* invoked the pending result is settled, as the first invocation says:
\* rejected with its error, or resolved with {committed, snapshot} bound to
\* this Reference.
C10_TransactionSettled ==
  \A op \in Ops :
    (op.kind = "transaction" /\ isFunction(op.update) /\ op.adapterCalls >= 1) =>
      IF Truthy(op.answer)
      THEN op.state = "rejected" /\ op.value = op.answer
      ELSE op.state = "resolved" /\ op.value.t = "object" /\ op.value.n = op.ref

\* the characters of push ids, in lexical (code point) order
PushChars == <<"-", "0", "1", "2", "3", "4", "5", "6", "7", "8", "9">>

CharCode(c) == CHOOSE i \in DOMAIN PushChars : PushChars[i] = c

\* a < b as strings
RECURSIVE LexLess(_, _)
LexLess(a, b) ==
  IF b = <<>> THEN FALSE
  ELSE IF a = <<>> THEN TRUE
  ELSE IF a[1] = b[1] THEN LexLess(Tail(a), Tail(b))
  ELSE CharCode(a[1]) < CharCode(b[1])

\* the call recorded in c is push() without a value, which returned a Reference
LocalPush(c) == c.op = "push" /\ c.ret.t = "reference"

\* the part of the path of the Reference child after the path of parent and "/"
IdUnder(parentPath, childPath) == SubSeq(childPath, Len(parentPath) + 2, Len(childPath))

\* C11: push() without a value makes no transport call and returns a new
\* Reference at this.path + "/" + id; of two such calls made one after the
\* other on the same Reference the second id is another one and lexically
\* greater than the first.
C11_PushLocalOrderedIds ==
  [][LocalPush(last') /\ refs' # refs =>
       LET new == last'.ret.n
           from == refs[last'.ref].path
           id == IdUnder(from, refs'[new].path)
       IN /\ ops' = ops
          /\ ~last'.thrown
          /\ new = Len(refs) + 1 /\ Len(refs') = new
          /\ id # <<>>
          /\ refs'[new].path = from \o <<Slash>> \o id
          /\ (LocalPush(last) /\ last.ref = last'.ref) =>
               /\ IdUnder(from, refs[last.ret.n].path) # id
               /\ LexLess(IdUnder(from, refs[last.ret.n].path), id)]_vars

\* C11 witness: two push() calls one after the other on the first Reference
C11_Witness ==
  /\ Len(refs) = 3 /\ ops = <<>> /\ pushed = 2
  /\ LocalPush(last) /\ last.ref = 1 /\ last.ret = RefVal(3)
  /\ LexLess(IdUnder(refs[1].path, refs[2].path), IdUnder(refs[1].path, refs[3].path))

\* the step is the call parent on the Reference that the call before it,
\* child on a Reference that is not the root, returned
ChildThenParent ==
  /\ last.op = "child" /\ ~last.thrown
  /\ refs[last.ref].path # RootPath
  /\ last'.op = "parent" /\ RefVal(last'.ref) = last.ret

\* C12: R.child(x).parent, for R that is not the root and a segment x, is a
\* Reference with the path of R; and the parent of a Reference at the root path
\* is null, no Reference being made.
C12_ChildParentRoundTrip ==
  [][/\ ChildThenParent =>
          /\ ~last'.thrown /\ last'.ret.t = "reference"
          /\ last'.ret.n \in DOMAIN refs' \ DOMAIN refs
          /\ refs'[last'.ret.n].path = refs[last.ref].path
     /\ (last'.op = "parent" /\ refs[last'.ref].path = RootPath) =>
          /\ ~last'.thrown /\ last'.ret = Null /\ refs' = refs]_vars

\* C12 witness: "/a", its child "/a/b", and the parent of that child at "/a"
C12_Witness ==
  /\ Len(refs) = 3
  /\ refs[1].path = <<"/", "a">>
  /\ refs[2].path = <<"/", "a", "/", "b">>
  /\ last.op = "parent" /\ last.ref = 2 /\ last.ret = RefVal(3)
  /\ refs[3].path = refs[1].path

\* a normalized path: "/" alone, or one "/" before each segment, no segment
\* empty, no slash at the end
Normalized(path) ==
  \/ path = RootPath
  \/ /\ Len(path) >= 2
     /\ path[1] = Slash /\ path[Len(path)] # Slash
     /\ \A i \in 1..(Len(path) - 1) : ~(path[i] = Slash /\ path[i + 1] = Slash)

\* C13: every Reference made by child, parent and root, starting at the root
\* or at a Reference one segment under it, has a normalized path.
C13_NormalizedPaths == \A r \in Refs : Normalized(refs[r].path)

\* the envelope that the call set, kept as the call i, handed to the transport
Envelope(i) == ops[i].sent[1].value

\* C14: the envelope of set(value) holds the serialized value, with the type
\* "object" exactly when the value is a mapping; for null the type is "null"
\* and the value null.
C14_SerializedTypes ==
  \A i \in DOMAIN ops :
    ops[i].kind = "set" =>
      /\ Envelope(i).value = _serializeObject(ops[i].arg)
      /\ Envelope(i).type = "object" <=> isObject(ops[i].arg)
      /\ ops[i].arg = Null => Envelope(i) = [type |-> "null", value |-> Null]

OrderByNames == {"orderByKey", "orderByPriority", "orderByValue", "orderByChild"}
LimitNames == {"limitToLast", "limitToFirst"}

\* the kind of modifier that the builder of this name sets
KindOf(name) ==
  IF name \in OrderByNames THEN "orderBy"
  ELSE IF name \in LimitNames THEN "limit" ELSE "filter"

\* the modifier that one builder call <<name, value, key>> sets
ModifierOf(call) == Modifier(KindOf(call[1]), call[1], call[2], call[3])

\* the builder calls that made the Reference r, and its modifiers
CallsOf(r) == hist[r].calls
ModifiersOf(r) == queries[refs[r].query]

\* no two of the calls are of the same kind
DistinctKinds(calls) ==
  \A i, j \in DOMAIN calls : KindOf(calls[i][1]) = KindOf(calls[j][1]) => i = j

\* C15: a Reference made by builder calls of distinct kinds, starting from a
\* Reference without modifiers, holds exactly one modifier per call, in the
\* order of the calls; a Reference made by no call holds none.
C15_OneModifierPerCall ==
  \A r \in Refs :
    DistinctKinds(CallsOf(r)) =>
      /\ Len(ModifiersOf(r)) = Len(CallsOf(r))
      /\ \A i \in DOMAIN CallsOf(r) : ModifiersOf(r)[i] = ModifierOf(CallsOf(r)[i])

\* C15 witness: orderByChild("age").limitToFirst(5).equalTo(30, "uid1")
C15_Witness ==
  \E r \in Refs :
    /\ CallsOf(r) = << <<"orderByChild", Undefined, Age>>,
                       <<"limitToFirst", Num(5), Undefined>>,
                       <<"equalTo", Num(30), Uid1>> >>
    /\ Len(ModifiersOf(r)) = 3
    /\ ModifiersOf(1) = <<>>

\* the calls, or the modifiers, of one kind, in their order
CallsOfKind(r, kind) == SelectSeq(CallsOf(r), LAMBDA c : KindOf(c[1]) = kind)
ModifiersOfKind(r, kind) == SelectSeq(ModifiersOf(r), LAMBDA m : m.type = kind)

\* the modifier of the last call of a kind, if there was one
LastWins(r, kind) ==
  IF CallsOfKind(r, kind) = <<>> THEN <<>>
  ELSE <<ModifierOf(CallsOfKind(r, kind)[Len(CallsOfKind(r, kind))])>>

\* C16: after any builder calls a Reference holds at most one orderBy and at
\* most one limit modifier, each the one of the last such call, and one filter
\* modifier for every filter call, in the order of the calls.
C16_LastWinsFiltersAccumulate ==
  \A r \in Refs :
    /\ ModifiersOfKind(r, "orderBy") = LastWins(r, "orderBy")
    /\ ModifiersOfKind(r, "limit") = LastWins(r, "limit")
    /\ Len(ModifiersOfKind(r, "filter")) = Len(CallsOfKind(r, "filter"))
    /\ \A i \in DOMAIN CallsOfKind(r, "filter") :
         ModifiersOfKind(r, "filter")[i] = ModifierOf(CallsOfKind(r, "filter")[i])

\* C16 witness: two orderBy calls and two filter calls in one chain, which
\* leave one orderBy modifier and two filter modifiers
C16_Witness ==
  \E r \in Refs :
    /\ Len(CallsOfKind(r, "orderBy")) = 2
    /\ CallsOfKind(r, "orderBy")[1] # CallsOfKind(r, "orderBy")[2]
    /\ Len(CallsOfKind(r, "filter")) = 2
    /\ Len(ModifiersOf(r)) = 3

\* the registrations held for the path and key of the Reference r
HeldFor(r) == {g \in registry : g.path = PathOf(r) /\ g.key = KeyOf(r)}

\* C17: off without an event type removes the registrations of every event
\* type for the path and key of the Reference; off(eventType) without a
\* callback removes every callback of that event type for them; and
\* off(eventType, callback) removes the registration of that callback only.
C17_OffRemoves ==
  [][last'.op = "off" =>
       /\ registry' \subseteq registry
       /\ last'.eventType = "" =>
            registry \ registry' = HeldFor(last'.ref)
       /\ (last'.eventType # "" /\ last'.cb = Undefined) =>
            registry \ registry' = {g \in HeldFor(last'.ref) : g.eventType = last'.eventType}
       /\ (last'.eventType # "" /\ last'.cb # Undefined) =>
            registry \ registry' = {g \in HeldFor(last'.ref) :
                                      g.eventType = last'.eventType /\ g.cb = last'.cb}]_vars

\* C17 witness: off() has removed two registrations, of different event types
C17_Witness ==
  /\ last.op = "off" /\ last.eventType = "" /\ last.cb = Undefined
  /\ last.removed = 2 /\ Cardinality(last.gone) = 2
  /\ HeldFor(last.ref) = {}

\* the transport calls that the calls made so far hand over, in call order
RECURSIVE Issued(_, _)
Issued(calls, i) ==
  IF i > Len(calls) THEN <<>>
  ELSE [k \in DOMAIN calls[i].sent |-> [op |-> i, call |-> calls[i].sent[k]]]
         \o Issued(calls, i + 1)

\* C18: the transport receives the calls of set, update, remove, push(value),
\* once and keepSynced made on one Reference in the order of the calls: each is
\* received within the step of its call, after those of the earlier calls and
\* whether or not those have completed, and a completion hands nothing over.
C18_DispatchInCallOrder ==
  [][/\ wire' = Issued(ops', 1)
     /\ Len(ops') > Len(ops) =>
          /\ Len(ops') = Len(ops) + 1
          /\ ops'[Len(ops')].stage = "sent"
          /\ wire' = Append(wire, [op |-> Len(ops'), call |-> ops'[Len(ops')].sent[1]])
     /\ Len(ops') = Len(ops) => wire' = wire]_vars

\* C18 witness: the second call was received while the first was pending, and
\* has completed before it
C18_Witness ==
  /\ Len(ops) = 2 /\ Len(wire) = 2
  /\ ops[1].kind = "set" /\ ops[2].kind = "remove"
  /\ ops[1].state = "pending" /\ ops[1].stage = "sent"
  /\ ops[2].state = "resolved"
  /\ wire[1].call.fn = "set" /\ wire[2].call.fn = "remove"

\* the call recorded in c made a Reference by navigation
Navigated(c) == c.op \in {"child", "parent", "root"} /\ c.ret.t = "reference"

\* the Reference r was made by no builder call
Bare(r) == CallsOf(r) = <<>>

\* C19: the Reference that child, parent or root returns holds no modifier and
\* has the empty key, whatever the modifiers of the Reference it is called on;
\* on, off and once through such a Reference hand over the empty key.
C19_NavigationDropsModifiers ==
  [][/\ Navigated(last') =>
          /\ last'.ret.n \in DOMAIN refs' \ DOMAIN refs
          /\ queries'[refs'[last'.ret.n].query] = <<>>
          /\ Encode(queries'[refs'[last'.ret.n].query]) = <<>>
          /\ hist'[last'.ret.n].calls = <<>>
     /\ (last'.op \in {"on", "off"} /\ Bare(last'.ref)) =>
          \A k \in DOMAIN last'.calls :
            last'.calls[k].key = <<>> /\ last'.calls[k].modifiers = <<>>
     /\ (last'.op = "once" /\ Bare(last'.ref)) =>
          /\ ops'[Len(ops')].sent[1].key = <<>>
          /\ ops'[Len(ops')].sent[1].modifiers = <<>>]_vars

\* C19 witness: on through the child of a Reference that has a modifier is
\* held under the empty key
C19_Witness ==
  /\ Len(refs) = 3
  /\ ModifiersOf(2) # <<>> /\ KeyOf(2) # <<>>
  /\ refs[3].path = refs[2].path \o <<Slash, "a">>
  /\ last.op = "on" /\ last.ref = 3 /\ ~last.thrown
  /\ \E g \in registry : g.path = refs[3].path /\ g.key = <<>>

\* the callbacks that the call op has invoked, in the order of the invocations
InvokedBy(op) == [k \in DOMAIN op.invoked |-> op.invoked[k].cb]

\* C20: a call of once given both callbacks invokes at most one of them, and
\* at most once; failureCallback only when the transport call was rejected,
\* and never after successCallback.
C20_OnceOneCallback ==
  \A i \in DOMAIN ops :
    (ops[i].kind = "once" /\ isFunction(ops[i].cb) /\ isFunction(ops[i].fail)) =>
      /\ Len(ops[i].invoked) <= 1
      /\ (\E k \in DOMAIN ops[i].invoked : InvokedBy(ops[i])[k] = ops[i].fail) =>
           ops[i].stage = "failed"

====
